---- MODULE Spec2Model ----
(***************************************************************************)
(* A model of VtIo (src/host/VtIo.cpp): the object that resolves a VT mode *)
(* string, opens the two pipes, builds the VT input thread and the VT      *)
(* render engine, and later registers the engine with the renderer and     *)
(* starts the input thread.                                                *)
(*                                                                         *)
(* The host's startup thread is the only caller.  Its position is pc;      *)
(* Initialize and StartIfNeeded are modelled statement group by statement  *)
(* group, and a return statement runs together with the destructors of the *)
(* locals that go out of scope with it.                                    *)
(***************************************************************************)
EXTENDS Integers, Sequences, FiniteSets, TLC

(* ------------------------------ bounds -------------------------------- *)

\* Number of calls (Initialize, IsUsingVt, StartIfNeeded) the startup thread makes.
MaxCalls == 4

(* ----------------------------- constants ------------------------------ *)

\* The empty unique_ptr; object addresses are 1, 2, ...
NULL == 0

\* The value CreateFileW returns on failure; open handles are 1, 2, ...
INVALID_HANDLE_VALUE == -1

\* The *_STRING constants of VtIoModes.hpp.
XTERM_256_STRING == "xterm-256color"
XTERM_STRING == "xterm"
WIN_TELNET_STRING == "win-telnet"
DEFAULT_STRING == ""

\* enum class VtIoMode
VtIoMode == {"INVALID", "XTERM_256", "XTERM", "WIN_TELNET"}

\* The mode strings a caller passes: the four known ones and near misses.
VtModes ==
    {DEFAULT_STRING, XTERM_256_STRING, XTERM_STRING, WIN_TELNET_STRING,
     "XTERM", "xterm-256", "bogus"}

\* The pipe names a caller passes, and the pipes that exist and can be opened.
InPipeNames == {"validIn", "missingIn"}
OutPipeNames == {"validOut", "missingOut"}
ExistingPipes == {"validIn", "validOut"}

\* What a constructor or AddRenderEngine can throw.
Exceptions == {"bad_alloc", "exception"}

(* ------------------------------- state -------------------------------- *)

VARIABLES
    _usingVt,           \* VtIo::_usingVt
    _IoMode,            \* VtIo::_IoMode
    _pVtInputThread,    \* VtIo::_pVtInputThread: address of the owned VtInputThread or NULL
    _pVtRenderEngine,   \* VtIo::_pVtRenderEngine: address of the owned engine or NULL
    _hInputFile,        \* the local unique_hfile of a running Initialize
    _hOutputFile,       \* the local unique_hfile of a running Initialize
    heap,               \* the live objects, by address
    openHandles,        \* the handles the process has open
    renderEngines,      \* the engines registered with g->pRender (raw pointers)
    pc,                 \* position of the startup thread
    op,                 \* the call the startup thread is in, or made last
    args,               \* the arguments of that call
    hr,                 \* the HRESULT the call computed last; at "idle", its return value
    bResult,            \* the value the last IsUsingVt call returned
    calls,              \* number of calls made
    nextAddress,        \* the identity the next constructed object gets
    nextHandle,         \* the identity the next opened handle gets
    pre,                \* the state at the entry of the call
    log,                \* the steps the call has run, in order
    prevInitHr,         \* the return value of the last finished Initialize, or "none"
    everInitOk          \* an Initialize has returned S_OK

vars ==
    <<_usingVt, _IoMode, _pVtInputThread, _pVtRenderEngine, _hInputFile,
      _hOutputFile, heap, openHandles, renderEngines, pc, op, args, hr,
      bResult, calls, nextAddress, nextHandle, pre, log, prevInitHr, everInitOk>>

fields == <<_usingVt, _IoMode, _pVtInputThread, _pVtRenderEngine>>
locals == <<_hInputFile, _hOutputFile>>
ghost == <<prevInitHr, everInitOk>>

(* ------------------------------ helpers ------------------------------- *)

SUCCEEDED(h) == h \in {"S_OK", "S_FALSE"}
FAILED(h) == ~SUCCEEDED(h)

\* CATCH_RETURN: the HRESULT an exception is converted to.
CatchReturn(e) ==
    IF e = "bad_alloc" THEN "E_OUTOFMEMORY"
    ELSE "HRESULT_FROM_WIN32(ERROR_UNHANDLED_EXCEPTION)"

\* HRESULT_FROM_WIN32(GetLastError()) after a failed CreateFileW.
LastError == "HRESULT_FROM_WIN32(ERROR_FILE_NOT_FOUND)"

\* CreateFileW(name, ..., OPEN_EXISTING, ...): a new handle, or INVALID_HANDLE_VALUE.
CreateFileW(name) ==
    IF name \in ExistingPipes THEN nextHandle ELSE INVALID_HANDLE_VALUE

\* The handles open after CreateFileW returned h.
Opened(h) == IF h = INVALID_HANDLE_VALUE THEN openHandles ELSE openHandles \cup {h}

\* unique_hfile's destructor: closes the handle it holds, if it holds one.
CloseHandles(handles, hs) == handles \ hs

\* The heap after the object unique_ptr p owns has been deleted.
Delete(h, p) == [a \in DOMAIN h \ {p} |-> h[a]]

\* The handles the object at p owns (closed by its destructor).
OwnedHandles(h, p) == IF p \in DOMAIN h THEN {h[p].hFile} ELSE {}

\* The state a call starts from.
Snapshot ==
    [usingVt |-> _usingVt, IoMode |-> _IoMode,
     pVtInputThread |-> _pVtInputThread, pVtRenderEngine |-> _pVtRenderEngine,
     heap |-> heap, openHandles |-> openHandles, renderEngines |-> renderEngines,
     prevInitHr |-> prevInitHr]

NoArgs == [InPipeName |-> "", OutPipeName |-> "", VtMode |-> ""]

NoSnapshot ==
    [usingVt |-> FALSE, IoMode |-> "INVALID", pVtInputThread |-> NULL,
     pVtRenderEngine |-> NULL, heap |-> <<>>, openHandles |-> {},
     renderEngines |-> <<>>, prevInitHr |-> "none"]

(* ---------------------------- ParseIoMode ----------------------------- *)

\* ParseIoMode without the DEFAULT_STRING branch of lines 50-53.
ParseIoMode_NoDefault(VtMode) ==
    IF VtMode = XTERM_256_STRING THEN [hr |-> "S_OK", ioMode |-> "XTERM_256"]
    ELSE IF VtMode = XTERM_STRING THEN [hr |-> "S_OK", ioMode |-> "XTERM"]
    ELSE IF VtMode = WIN_TELNET_STRING THEN [hr |-> "S_OK", ioMode |-> "WIN_TELNET"]
    ELSE [hr |-> "E_INVALIDARG", ioMode |-> "INVALID"]

\* VtIo::ParseIoMode: the HRESULT and the value left in the out parameter.
ParseIoMode(VtMode) ==
    IF VtMode = XTERM_256_STRING THEN [hr |-> "S_OK", ioMode |-> "XTERM_256"]
    ELSE IF VtMode = XTERM_STRING THEN [hr |-> "S_OK", ioMode |-> "XTERM"]
    ELSE IF VtMode = WIN_TELNET_STRING THEN [hr |-> "S_OK", ioMode |-> "WIN_TELNET"]
    ELSE IF VtMode = DEFAULT_STRING THEN [hr |-> "S_OK", ioMode |-> "XTERM_256"]
    ELSE [hr |-> "E_INVALIDARG", ioMode |-> "INVALID"]

(* ----------------------------- Initialize ----------------------------- *)

\* Lines 77-84: the call, ParseIoMode into _IoMode, RETURN_IF_FAILED, the locals.
Initialize_Parse ==
    /\ pc = "idle"
    /\ calls < MaxCalls
    /\ \E i \in InPipeNames, o \in OutPipeNames, m \in VtModes :
         LET r == ParseIoMode(m) IN
         /\ args' = [InPipeName |-> i, OutPipeName |-> o, VtMode |-> m]
         /\ _IoMode' = r.ioMode
         /\ hr' = r.hr
         /\ pc' = IF FAILED(r.hr) THEN "idle" ELSE "OpenInput"
         /\ prevInitHr' = IF FAILED(r.hr) THEN r.hr ELSE prevInitHr
    /\ op' = "Initialize"
    /\ calls' = calls + 1
    /\ pre' = Snapshot
    /\ log' = <<"ParseIoMode">>
    /\ _hInputFile' = INVALID_HANDLE_VALUE
    /\ _hOutputFile' = INVALID_HANDLE_VALUE
    /\ UNCHANGED <<_usingVt, _pVtInputThread, _pVtRenderEngine, heap, openHandles,
                   renderEngines, bResult, nextAddress, nextHandle, everInitOk>>

\* Initialize_OpenInput without the RETURN_LAST_ERROR_IF of line 95: a failed
\* input open goes on to the output open.
Initialize_OpenInput_NoReturn ==
    /\ pc = "OpenInput"
    /\ LET h == CreateFileW(args.InPipeName) IN
       /\ _hInputFile' = h
       /\ openHandles' = Opened(h)
       /\ nextHandle' = IF h = INVALID_HANDLE_VALUE THEN nextHandle ELSE nextHandle + 1
    /\ pc' = "OpenOutput"
    /\ log' = Append(log, "CreateFileW(InPipeName)")
    /\ UNCHANGED <<fields, _hOutputFile, heap, renderEngines, op, args, hr,
                   prevInitHr, bResult, calls, nextAddress, pre, everInitOk>>

\* Lines 86-95: open the input pipe; RETURN_LAST_ERROR_IF it is invalid.
Initialize_OpenInput ==
    /\ pc = "OpenInput"
    /\ LET h == CreateFileW(args.InPipeName) IN
       IF h = INVALID_HANDLE_VALUE
       THEN /\ hr' = LastError
            /\ prevInitHr' = LastError
            /\ pc' = "idle"
            /\ _hInputFile' = INVALID_HANDLE_VALUE
            /\ UNCHANGED <<openHandles, nextHandle>>
       ELSE /\ _hInputFile' = h
            /\ openHandles' = Opened(h)
            /\ nextHandle' = nextHandle + 1
            /\ pc' = "OpenOutput"
            /\ UNCHANGED <<hr, prevInitHr>>
    /\ log' = Append(log, "CreateFileW(InPipeName)")
    /\ UNCHANGED <<fields, _hOutputFile, heap, renderEngines, op, args, bResult,
                   calls, nextAddress, pre, everInitOk>>

\* Initialize_OpenOutput with the input handle held as a raw HANDLE: the
\* failure return does not close it.
Initialize_OpenOutput_Leak ==
    /\ pc = "OpenOutput"
    /\ LET h == CreateFileW(args.OutPipeName) IN
       IF h = INVALID_HANDLE_VALUE
       THEN /\ hr' = LastError
            /\ prevInitHr' = LastError
            /\ pc' = "idle"
            /\ _hInputFile' = INVALID_HANDLE_VALUE
            /\ _hOutputFile' = INVALID_HANDLE_VALUE
            /\ UNCHANGED <<openHandles, nextHandle>>
       ELSE /\ _hOutputFile' = h
            /\ openHandles' = Opened(h)
            /\ nextHandle' = nextHandle + 1
            /\ pc' = "MakeInputThread"
            /\ UNCHANGED <<hr, prevInitHr, _hInputFile>>
    /\ log' = Append(log, "CreateFileW(OutPipeName)")
    /\ UNCHANGED <<fields, heap, renderEngines, op, args, bResult, calls,
                   nextAddress, pre, everInitOk>>

\* Lines 97-106: open the output pipe; RETURN_LAST_ERROR_IF it is invalid.
\* The return destroys _hInputFile, which closes the input handle.
Initialize_OpenOutput ==
    /\ pc = "OpenOutput"
    /\ LET h == CreateFileW(args.OutPipeName) IN
       IF h = INVALID_HANDLE_VALUE
       THEN /\ hr' = LastError
            /\ prevInitHr' = LastError
            /\ pc' = "idle"
            /\ openHandles' = CloseHandles(openHandles, {_hInputFile})
            /\ _hInputFile' = INVALID_HANDLE_VALUE
            /\ _hOutputFile' = INVALID_HANDLE_VALUE
            /\ UNCHANGED nextHandle
       ELSE /\ _hOutputFile' = h
            /\ openHandles' = Opened(h)
            /\ nextHandle' = nextHandle + 1
            /\ pc' = "MakeInputThread"
            /\ UNCHANGED <<hr, prevInitHr, _hInputFile>>
    /\ log' = Append(log, "CreateFileW(OutPipeName)")
    /\ UNCHANGED <<fields, heap, renderEngines, op, args, bResult, calls,
                   nextAddress, pre, everInitOk>>

\* std::make_unique<VtInputThread>(std::move(hFile)): the new object.
NewVtInputThread(hFile) == [class |-> "VtInputThread", hFile |-> hFile, starts |-> 0]

\* The switch with the XTERM case constructing the XTERM_256 case's engine.
RenderEngineClass_Swapped(ioMode) ==
    CASE ioMode = "XTERM_256" -> "Xterm256Engine"
      [] ioMode = "XTERM" -> "Xterm256Engine"
      [] ioMode = "WIN_TELNET" -> "WinTelnetEngine"
      [] OTHER -> "none"

\* Lines 112-125: the engine class the switch constructs for a mode; "none" is
\* the default case, which returns E_FAIL.
RenderEngineClass(ioMode) ==
    CASE ioMode = "XTERM_256" -> "Xterm256Engine"
      [] ioMode = "XTERM" -> "XtermEngine"
      [] ioMode = "WIN_TELNET" -> "WinTelnetEngine"
      [] OTHER -> "none"

\* The engine object: XtermEngine and WinTelnetEngine also take the color table.
NewRenderEngine(ioMode, hFile) ==
    [class |-> RenderEngineClass(ioMode), hFile |-> hFile,
     ColorTable |-> ioMode \in {"XTERM", "WIN_TELNET"}]

\* Initialize_MakeInputThread with _pVtInputThread a raw pointer: the assignment
\* does not delete the input thread it held.
Initialize_MakeInputThread_NoDelete ==
    /\ pc = "MakeInputThread"
    /\ \/ /\ heap' = (nextAddress :> NewVtInputThread(_hInputFile)) @@ heap
          /\ _pVtInputThread' = nextAddress
          /\ nextAddress' = nextAddress + 1
          /\ _hInputFile' = INVALID_HANDLE_VALUE
          /\ pc' = "MakeRenderEngine"
          /\ UNCHANGED <<hr, prevInitHr, _hOutputFile, openHandles>>
       \/ \E e \in Exceptions :
          /\ hr' = CatchReturn(e)
          /\ prevInitHr' = CatchReturn(e)
          /\ pc' = "idle"
          /\ openHandles' = CloseHandles(openHandles, {_hInputFile, _hOutputFile})
          /\ _hInputFile' = INVALID_HANDLE_VALUE
          /\ _hOutputFile' = INVALID_HANDLE_VALUE
          /\ UNCHANGED <<heap, _pVtInputThread, nextAddress>>
    /\ log' = Append(log, "make_unique<VtInputThread>")
    /\ UNCHANGED <<_usingVt, _IoMode, _pVtRenderEngine, renderEngines, op, args,
                   bResult, calls, nextHandle, pre, everInitOk>>

\* Initialize_MakeInputThread with a catch that does not return: after a throw
\* the call goes on to the switch with _pVtInputThread as it was.
Initialize_MakeInputThread_SwallowThrow ==
    /\ pc = "MakeInputThread"
    /\ \/ /\ heap' = (nextAddress :> NewVtInputThread(_hInputFile))
                       @@ Delete(heap, _pVtInputThread)
          /\ openHandles' =
               CloseHandles(openHandles, OwnedHandles(heap, _pVtInputThread))
          /\ _pVtInputThread' = nextAddress
          /\ nextAddress' = nextAddress + 1
          /\ _hInputFile' = INVALID_HANDLE_VALUE
          /\ UNCHANGED hr
       \/ \E e \in Exceptions :
          /\ hr' = CatchReturn(e)
          /\ UNCHANGED <<heap, openHandles, _pVtInputThread, nextAddress, _hInputFile>>
    /\ pc' = "MakeRenderEngine"
    /\ log' = Append(log, "make_unique<VtInputThread>")
    /\ UNCHANGED <<_usingVt, _IoMode, _pVtRenderEngine, _hOutputFile, renderEngines,
                   op, args, bResult, calls, nextHandle, pre, ghost>>

\* Line 110 inside the try of lines 108-127: construct the input thread and
\* move-assign it to _pVtInputThread, which deletes the object it held.  A throw
\* leaves _pVtInputThread as it was; CATCH_RETURN returns, and the locals close
\* the handles they hold.
Initialize_MakeInputThread ==
    /\ pc = "MakeInputThread"
    /\ \/ /\ heap' = (nextAddress :> NewVtInputThread(_hInputFile))
                       @@ Delete(heap, _pVtInputThread)
          /\ openHandles' =
               CloseHandles(openHandles, OwnedHandles(heap, _pVtInputThread))
          /\ _pVtInputThread' = nextAddress
          /\ nextAddress' = nextAddress + 1
          /\ _hInputFile' = INVALID_HANDLE_VALUE
          /\ pc' = "MakeRenderEngine"
          /\ UNCHANGED <<hr, prevInitHr, _hOutputFile>>
       \/ \E e \in Exceptions :
          /\ hr' = CatchReturn(e)
          /\ prevInitHr' = CatchReturn(e)
          /\ pc' = "idle"
          /\ openHandles' = CloseHandles(openHandles, {_hInputFile, _hOutputFile})
          /\ _hInputFile' = INVALID_HANDLE_VALUE
          /\ _hOutputFile' = INVALID_HANDLE_VALUE
          /\ UNCHANGED <<heap, _pVtInputThread, nextAddress>>
    /\ log' = Append(log, "make_unique<VtInputThread>")
    /\ UNCHANGED <<_usingVt, _IoMode, _pVtRenderEngine, renderEngines, op, args,
                   bResult, calls, nextHandle, pre, everInitOk>>

\* Initialize_MakeRenderEngine with the output handle copied into the engine
\* instead of moved: _hOutputFile keeps it and closes it on return.
Initialize_MakeRenderEngine_CopyHandle ==
    /\ pc = "MakeRenderEngine"
    /\ IF RenderEngineClass(_IoMode) = "none"
       THEN /\ hr' = "E_FAIL"
            /\ prevInitHr' = "E_FAIL"
            /\ pc' = "idle"
            /\ openHandles' = CloseHandles(openHandles, {_hInputFile, _hOutputFile})
            /\ _hOutputFile' = INVALID_HANDLE_VALUE
            /\ UNCHANGED <<heap, _pVtRenderEngine, nextAddress>>
       ELSE \/ /\ heap' = (nextAddress :> NewRenderEngine(_IoMode, _hOutputFile))
                            @@ Delete(heap, _pVtRenderEngine)
               /\ openHandles' =
                    CloseHandles(openHandles, OwnedHandles(heap, _pVtRenderEngine))
               /\ _pVtRenderEngine' = nextAddress
               /\ nextAddress' = nextAddress + 1
               /\ pc' = "Commit"
               /\ UNCHANGED <<hr, prevInitHr, _hOutputFile>>
            \/ \E e \in Exceptions :
               /\ hr' = CatchReturn(e)
               /\ prevInitHr' = CatchReturn(e)
               /\ pc' = "idle"
               /\ openHandles' =
                    CloseHandles(openHandles, {_hInputFile, _hOutputFile})
               /\ _hOutputFile' = INVALID_HANDLE_VALUE
               /\ UNCHANGED <<heap, _pVtRenderEngine, nextAddress>>
    /\ log' = Append(log, "make_unique<RenderEngine>")
    /\ UNCHANGED <<_usingVt, _IoMode, _pVtInputThread, _hInputFile, renderEngines,
                   op, args, bResult, calls, nextHandle, pre, everInitOk>>

\* Lines 112-127: the switch on _IoMode.  A case constructs its engine and
\* move-assigns it to _pVtRenderEngine, which deletes the engine it held; the
\* default case returns E_FAIL; a throw leaves _pVtRenderEngine as it was and
\* CATCH_RETURN returns.  Either return closes the handle _hOutputFile holds;
\* _pVtInputThread keeps the input thread line 110 assigned.
Initialize_MakeRenderEngine ==
    /\ pc = "MakeRenderEngine"
    /\ IF RenderEngineClass(_IoMode) = "none"
       THEN /\ hr' = "E_FAIL"
            /\ prevInitHr' = "E_FAIL"
            /\ pc' = "idle"
            /\ openHandles' = CloseHandles(openHandles, {_hInputFile, _hOutputFile})
            /\ _hOutputFile' = INVALID_HANDLE_VALUE
            /\ UNCHANGED <<heap, _pVtRenderEngine, nextAddress>>
       ELSE \/ /\ heap' = (nextAddress :> NewRenderEngine(_IoMode, _hOutputFile))
                            @@ Delete(heap, _pVtRenderEngine)
               /\ openHandles' =
                    CloseHandles(openHandles, OwnedHandles(heap, _pVtRenderEngine))
               /\ _pVtRenderEngine' = nextAddress
               /\ nextAddress' = nextAddress + 1
               /\ _hOutputFile' = INVALID_HANDLE_VALUE
               /\ pc' = "Commit"
               /\ UNCHANGED <<hr, prevInitHr>>
            \/ \E e \in Exceptions :
               /\ hr' = CatchReturn(e)
               /\ prevInitHr' = CatchReturn(e)
               /\ pc' = "idle"
               /\ openHandles' =
                    CloseHandles(openHandles, {_hInputFile, _hOutputFile})
               /\ _hOutputFile' = INVALID_HANDLE_VALUE
               /\ UNCHANGED <<heap, _pVtRenderEngine, nextAddress>>
    /\ log' = Append(log, "make_unique<RenderEngine>")
    /\ UNCHANGED <<_usingVt, _IoMode, _pVtInputThread, _hInputFile, renderEngines,
                   op, args, bResult, calls, nextHandle, pre, everInitOk>>

\* Initialize_Commit without the assignment of line 129.
Initialize_Commit_NoFlag ==
    /\ pc = "Commit"
    /\ hr' = "S_OK"
    /\ prevInitHr' = "S_OK"
    /\ everInitOk' = TRUE
    /\ pc' = "idle"
    /\ openHandles' = CloseHandles(openHandles, {_hInputFile, _hOutputFile})
    /\ UNCHANGED <<fields, locals, heap, renderEngines, op, args, bResult, calls,
                   nextAddress, nextHandle, pre, log>>

\* Lines 129-130: _usingVt = true; return S_OK.
Initialize_Commit ==
    /\ pc = "Commit"
    /\ _usingVt' = TRUE
    /\ hr' = "S_OK"
    /\ prevInitHr' = "S_OK"
    /\ everInitOk' = TRUE
    /\ pc' = "idle"
    /\ openHandles' = CloseHandles(openHandles, {_hInputFile, _hOutputFile})
    /\ UNCHANGED <<_IoMode, _pVtInputThread, _pVtRenderEngine, locals, heap,
                   renderEngines, op, args, bResult, calls, nextAddress,
                   nextHandle, pre, log>>

\* VtIo::Initialize, lines 77-131.
Initialize ==
    \/ Initialize_Parse
    \/ Initialize_OpenInput
    \/ Initialize_OpenOutput
    \/ Initialize_MakeInputThread
    \/ Initialize_MakeRenderEngine
    \/ Initialize_Commit

(* ----------------------------- IsUsingVt ------------------------------ *)

\* VtIo::IsUsingVt, lines 133-136, as an expression.
IsUsingVt == _usingVt

\* A call of IsUsingVt by the startup thread.
CallIsUsingVt ==
    /\ pc = "idle"
    /\ calls < MaxCalls
    /\ bResult' = IsUsingVt
    /\ op' = "IsUsingVt"
    /\ args' = NoArgs
    /\ calls' = calls + 1
    /\ pre' = Snapshot
    /\ log' = <<>>
    /\ UNCHANGED <<fields, locals, heap, openHandles, renderEngines, pc, hr,
                   nextAddress, nextHandle, ghost>>

(* --------------------------- StartIfNeeded ---------------------------- *)

\* Renderer::AddRenderEngine(pEngine): the renderer's engines afterwards.
AddRenderEngine(engines, pEngine) == Append(engines, pEngine)

\* VtInputThread::Start(): the input thread object afterwards.
Start(thread) == [thread EXCEPT !.starts = @ + 1]

\* StartIfNeeded_Check with a guard the source does not have: a call made when
\* the input thread is already started returns S_OK and does nothing.
StartIfNeeded_Check_OnlyOnce ==
    /\ pc = "idle"
    /\ calls < MaxCalls
    /\ IF ~_usingVt
       THEN /\ hr' = "S_FALSE"
            /\ pc' = "idle"
       ELSE IF _pVtInputThread \in DOMAIN heap /\ heap[_pVtInputThread].starts > 0
       THEN /\ hr' = "S_OK"
            /\ pc' = "idle"
       ELSE /\ pc' = "AddRenderEngine"
            /\ UNCHANGED hr
    /\ op' = "StartIfNeeded"
    /\ args' = NoArgs
    /\ calls' = calls + 1
    /\ pre' = Snapshot
    /\ log' = <<>>
    /\ UNCHANGED <<fields, locals, heap, openHandles, renderEngines, bResult,
                   nextAddress, nextHandle, ghost>>

\* StartIfNeeded_Check going on to line 166 without the registration of
\* lines 159-164.
StartIfNeeded_Check_SkipRegister ==
    /\ pc = "idle"
    /\ calls < MaxCalls
    /\ IF ~_usingVt
       THEN /\ hr' = "S_FALSE"
            /\ pc' = "idle"
       ELSE /\ pc' = "Start"
            /\ UNCHANGED hr
    /\ op' = "StartIfNeeded"
    /\ args' = NoArgs
    /\ calls' = calls + 1
    /\ pre' = Snapshot
    /\ log' = <<>>
    /\ UNCHANGED <<fields, locals, heap, openHandles, renderEngines, bResult,
                   nextAddress, nextHandle, ghost>>

\* StartIfNeeded_Check without the test of lines 151-154.
StartIfNeeded_Check_NoGuard ==
    /\ pc = "idle"
    /\ calls < MaxCalls
    /\ pc' = "AddRenderEngine"
    /\ op' = "StartIfNeeded"
    /\ args' = NoArgs
    /\ calls' = calls + 1
    /\ pre' = Snapshot
    /\ log' = <<>>
    /\ UNCHANGED <<fields, locals, heap, openHandles, renderEngines, hr, bResult,
                   nextAddress, nextHandle, ghost>>

\* Lines 148-159: the call; if (!IsUsingVt()) return S_FALSE.
StartIfNeeded_Check ==
    /\ pc = "idle"
    /\ calls < MaxCalls
    /\ IF ~IsUsingVt
       THEN /\ hr' = "S_FALSE"
            /\ pc' = "idle"
       ELSE /\ pc' = "AddRenderEngine"
            /\ UNCHANGED hr
    /\ op' = "StartIfNeeded"
    /\ args' = NoArgs
    /\ calls' = calls + 1
    /\ pre' = Snapshot
    /\ log' = <<>>
    /\ UNCHANGED <<fields, locals, heap, openHandles, renderEngines, bResult,
                   nextAddress, nextHandle, ghost>>

\* StartIfNeeded_AddRenderEngine with a catch that does not return: a throw
\* falls through to line 166.
StartIfNeeded_AddRenderEngine_Swallow ==
    /\ pc = "AddRenderEngine"
    /\ \/ /\ renderEngines' = AddRenderEngine(renderEngines, _pVtRenderEngine)
          /\ pc' = "Start"
          /\ UNCHANGED hr
       \/ \E e \in Exceptions :
          /\ hr' = CatchReturn(e)
          /\ pc' = "Start"
          /\ UNCHANGED renderEngines
    /\ log' = Append(log, "AddRenderEngine")
    /\ UNCHANGED <<fields, locals, heap, openHandles, op, args, bResult, calls,
                   nextAddress, nextHandle, pre, ghost>>

\* Lines 160-164: register _pVtRenderEngine.get() with the renderer; a throw is
\* returned by CATCH_RETURN.
StartIfNeeded_AddRenderEngine ==
    /\ pc = "AddRenderEngine"
    /\ \/ /\ renderEngines' = AddRenderEngine(renderEngines, _pVtRenderEngine)
          /\ pc' = "Start"
          /\ UNCHANGED hr
       \/ \E e \in Exceptions :
          /\ hr' = CatchReturn(e)
          /\ pc' = "idle"
          /\ UNCHANGED renderEngines
    /\ log' = Append(log, "AddRenderEngine")
    /\ UNCHANGED <<fields, locals, heap, openHandles, op, args, bResult, calls,
                   nextAddress, nextHandle, pre, ghost>>

\* Lines 166-168: _pVtInputThread->Start(); return S_OK.  Through a null
\* pointer the call is an access violation.
StartIfNeeded_Start ==
    /\ pc = "Start"
    /\ IF _pVtInputThread \in DOMAIN heap
       THEN /\ heap' = [heap EXCEPT ![_pVtInputThread] = Start(@)]
            /\ hr' = "S_OK"
            /\ pc' = "idle"
       ELSE /\ pc' = "crashed"
            /\ UNCHANGED <<heap, hr>>
    /\ log' = Append(log, "Start")
    /\ UNCHANGED <<fields, locals, openHandles, renderEngines, op, args, bResult,
                   calls, nextAddress, nextHandle, pre, ghost>>

\* VtIo::StartIfNeeded, lines 148-169.
StartIfNeeded ==
    \/ StartIfNeeded_Check
    \/ StartIfNeeded_AddRenderEngine
    \/ StartIfNeeded_Start

(* --------------------------- specification ---------------------------- *)

\* VtIo::VtIo, lines 19-22: _usingVt(false); the unique_ptrs are empty; _IoMode
\* has no initializer, so it holds any value.
Init ==
    /\ _usingVt = FALSE
    /\ _IoMode \in VtIoMode
    /\ _pVtInputThread = NULL
    /\ _pVtRenderEngine = NULL
    /\ _hInputFile = INVALID_HANDLE_VALUE
    /\ _hOutputFile = INVALID_HANDLE_VALUE
    /\ heap = <<>>
    /\ openHandles = {}
    /\ renderEngines = <<>>
    /\ pc = "idle"
    /\ op = "none"
    /\ args = NoArgs
    /\ hr = "S_OK"
    /\ bResult = FALSE
    /\ calls = 0
    /\ nextAddress = 1
    /\ nextHandle = 1
    /\ pre = NoSnapshot
    /\ log = <<>>
    /\ prevInitHr = "none"
    /\ everInitOk = FALSE

Next ==
    \/ Initialize
    \/ CallIsUsingVt
    \/ StartIfNeeded

Spec == Init /\ [][Next]_vars

(* ------------------------ vocabulary of the claims --------------------- *)

\* The call o has returned (and no other call has started).
Returned(o) == pc = "idle" /\ op = o

\* The arguments of the call pass ParseIoMode and name two pipes that open.
ValidArgs ==
    /\ args.VtMode \in {DEFAULT_STRING, XTERM_256_STRING, XTERM_STRING, WIN_TELNET_STRING}
    /\ args.InPipeName \in ExistingPipes
    /\ args.OutPipeName \in ExistingPipes

\* How far the Initialize call got: the step it ran last.
LastStep == log[Len(log)]
InputOpenFailed == Returned("Initialize") /\ FAILED(hr) /\ LastStep = "CreateFileW(InPipeName)"
OutputOpenFailed == Returned("Initialize") /\ FAILED(hr) /\ LastStep = "CreateFileW(OutPipeName)"
InputThreadFailed == Returned("Initialize") /\ FAILED(hr) /\ LastStep = "make_unique<VtInputThread>"
RenderEngineFailed == Returned("Initialize") /\ FAILED(hr) /\ LastStep = "make_unique<RenderEngine>"
ConstructionFailed == InputThreadFailed \/ RenderEngineFailed

\* The call returned the HRESULT of a caught exception.
Threw == \E e \in Exceptions : hr = CatchReturn(e)

\* The objects of a class that are alive.
Live(classes) == {a \in DOMAIN heap : heap[a].class \in classes}
EngineClasses == {"Xterm256Engine", "XtermEngine", "WinTelnetEngine"}

\* VtIo holds exactly one input thread and one engine, each owning one open
\* handle, and nothing else is alive or open.
OnePairAndNothingElse ==
    /\ Live({"VtInputThread"}) = {_pVtInputThread}
    /\ Live(EngineClasses) = {_pVtRenderEngine}
    /\ DOMAIN heap = {_pVtInputThread, _pVtRenderEngine}
    /\ heap[_pVtInputThread].hFile # heap[_pVtRenderEngine].hFile
    /\ openHandles = {heap[_pVtInputThread].hFile, heap[_pVtRenderEngine].hFile}

\* The VtIo fields are as they were when the call started.
FieldsUnchanged ==
    /\ _usingVt = pre.usingVt
    /\ _IoMode = pre.IoMode
    /\ _pVtInputThread = pre.pVtInputThread
    /\ _pVtRenderEngine = pre.pVtRenderEngine

(* ------------------------------- claims -------------------------------- *)

\* C1: when Initialize, called on a NotConfigured VtIo with no handle open,
\* fails at the input open, at the output open or at a construction, then on
\* return IsUsingVt() is false and no pipe handle is open.
C1_FailureRestoresState ==
    (/\ InputOpenFailed \/ OutputOpenFailed \/ ConstructionFailed
     /\ ~pre.usingVt
     /\ pre.openHandles = {})
    => (~IsUsingVt /\ openHandles = {})

\* C2: when a construction fails inside Initialize, Initialize returns an
\* error, no object the call constructed is retained (a VtIo that held no
\* input thread and no engine holds none afterwards) and both handles the call
\* opened are closed.
C2_NoPartialConstruction ==
    ConstructionFailed
    => /\ FAILED(hr)
       /\ DOMAIN heap \subseteq DOMAIN pre.heap
       /\ openHandles \subseteq pre.openHandles
       /\ (pre.pVtInputThread = NULL => _pVtInputThread = NULL)
       /\ (pre.pVtRenderEngine = NULL => _pVtRenderEngine = NULL)

\* C3: when Initialize, called on a NotConfigured VtIo, returns S_OK, then
\* IsUsingVt() is true, _IoMode is the mode the string resolves to, exactly one
\* input thread is alive and owns the input handle the call opened, exactly one
\* engine is alive and owns the output handle the call opened, and the engine's
\* class is the one of the mode.
C3_SuccessConfigures ==
    (Returned("Initialize") /\ hr = "S_OK" /\ ~pre.usingVt)
    => /\ IsUsingVt
       /\ _IoMode = ParseIoMode(args.VtMode).ioMode
       /\ Live({"VtInputThread"}) = {_pVtInputThread}
       /\ heap[_pVtInputThread].hFile = nextHandle - 2
       /\ Live(EngineClasses) = {_pVtRenderEngine}
       /\ heap[_pVtRenderEngine].hFile = nextHandle - 1
       /\ {nextHandle - 2, nextHandle - 1} \subseteq openHandles
       /\ (_IoMode = "XTERM_256" => heap[_pVtRenderEngine].class = "Xterm256Engine")
       /\ (_IoMode = "XTERM" => heap[_pVtRenderEngine].class = "XtermEngine")
       /\ (_IoMode = "WIN_TELNET" => heap[_pVtRenderEngine].class = "WinTelnetEngine")
       /\ _IoMode \in {"XTERM_256", "XTERM", "WIN_TELNET"}

C3_Witness ==
    /\ Returned("Initialize") /\ hr = "S_OK" /\ ~pre.usingVt
    /\ args.VtMode = "xterm"
    /\ heap[_pVtRenderEngine].class = "XtermEngine"

\* C4: right after ParseIoMode has run on a string, its HRESULT and the mode it
\* left are: "" and "xterm-256color" give S_OK and XTERM_256, "xterm" gives
\* S_OK and XTERM, "win-telnet" gives S_OK and WIN_TELNET, any other string
\* gives E_INVALIDARG and INVALID; the mode is INVALID exactly when the HRESULT
\* is E_INVALIDARG.
C4_ParseIoModeTable ==
    (op = "Initialize" /\ log = <<"ParseIoMode">>)
    => /\ (args.VtMode \in {"", "xterm-256color"}
             => hr = "S_OK" /\ _IoMode = "XTERM_256")
       /\ (args.VtMode = "xterm" => hr = "S_OK" /\ _IoMode = "XTERM")
       /\ (args.VtMode = "win-telnet" => hr = "S_OK" /\ _IoMode = "WIN_TELNET")
       /\ (args.VtMode \notin {"", "xterm-256color", "xterm", "win-telnet"}
             => hr = "E_INVALIDARG" /\ _IoMode = "INVALID")
       /\ (_IoMode = "INVALID" <=> hr = "E_INVALIDARG")
       /\ hr \in {"S_OK", "E_INVALIDARG"}

C4_Witness ==
    /\ op = "Initialize" /\ log = <<"ParseIoMode">>
    /\ args.VtMode = ""
    /\ hr = "S_OK" /\ _IoMode = "XTERM_256"

\* C5: IsUsingVt() is true exactly in the states in which some Initialize has
\* returned S_OK (so it is false after any failed Initialize calls and
\* StartIfNeeded calls before that), and no step of StartIfNeeded changes it.
C5_IsUsingVt ==
    /\ [](IsUsingVt <=> everInitOk)
    /\ [][(op' = "StartIfNeeded" /\ (calls' # calls \/ pc # "idle"))
            => IsUsingVt' = IsUsingVt]_vars

C5_Witness ==
    /\ Returned("StartIfNeeded") /\ hr = "S_OK"
    /\ IsUsingVt /\ everInitOk
    /\ pre.prevInitHr = "S_OK"

C7_RegisterThenStart ==
    (op = "StartIfNeeded" /\ pre.usingVt)
    => /\ (pc = "Start"
             => /\ renderEngines = Append(pre.renderEngines, _pVtRenderEngine)
                /\ heap = pre.heap)
       /\ (pc = "idle" /\ renderEngines # pre.renderEngines => hr = "S_OK")
       /\ (pc = "idle" /\ hr = "S_OK"
             => /\ renderEngines = Append(pre.renderEngines, _pVtRenderEngine)
                /\ _pVtRenderEngine \in Live(EngineClasses)
                /\ _pVtInputThread \in Live({"VtInputThread"})
                /\ heap[_pVtInputThread].starts = pre.heap[_pVtInputThread].starts + 1
                /\ log = <<"AddRenderEngine", "Start">>)

C7_Witness ==
    /\ Returned("StartIfNeeded") /\ hr = "S_OK"
    /\ pre.renderEngines = <<>>
    /\ renderEngines = <<_pVtRenderEngine>>
    /\ heap[_pVtInputThread].starts = 1

\* C8: a StartIfNeeded call on a configured VtIo in which the engine was not
\* registered returns an error and has not started the input thread, and
\* leaves IsUsingVt() true with the engine and the input thread retained; at
\* no point of a call is the input thread started by it without the engine
\* having been registered by it.
C8_RegistrationFailure ==
    (op = "StartIfNeeded" /\ pre.usingVt)
    => /\ (heap # pre.heap
             => renderEngines = Append(pre.renderEngines, _pVtRenderEngine))
       /\ (pc = "idle" /\ renderEngines = pre.renderEngines
             => /\ FAILED(hr)
                /\ heap = pre.heap
                /\ FieldsUnchanged
                /\ IsUsingVt
                /\ _pVtRenderEngine \in Live(EngineClasses)
                /\ _pVtInputThread \in Live({"VtInputThread"})
                /\ log = <<"AddRenderEngine">>)

C8_Witness ==
    /\ Returned("StartIfNeeded") /\ FAILED(hr)
    /\ pre.usingVt
    /\ renderEngines = <<>>
    /\ heap[_pVtInputThread].starts = 0

\* C9: an Initialize call with a valid mode string whose input pipe opens and
\* whose output pipe does not returns the error of the failed open after the
\* output open, with the input handle it opened closed again and no object
\* constructed.
C9_OutputOpenFailure ==
    (/\ Returned("Initialize")
     /\ SUCCEEDED(ParseIoMode(args.VtMode).hr)
     /\ args.InPipeName \in ExistingPipes
     /\ args.OutPipeName \notin ExistingPipes)
    => /\ hr = LastError
       /\ FAILED(hr)
       /\ log = <<"ParseIoMode", "CreateFileW(InPipeName)", "CreateFileW(OutPipeName)">>
       /\ (nextHandle - 1) \notin openHandles
       /\ openHandles = pre.openHandles
       /\ _hInputFile = INVALID_HANDLE_VALUE
       /\ heap = pre.heap
       /\ _pVtInputThread = pre.pVtInputThread
       /\ _pVtRenderEngine = pre.pVtRenderEngine

C9_Witness ==
    /\ OutputOpenFailed
    /\ args.InPipeName = "validIn" /\ args.OutPipeName = "missingOut"
    /\ nextHandle = 2
    /\ openHandles = {}

InputThreadStarted ==
    /\ _pVtInputThread \in DOMAIN heap
    /\ heap[_pVtInputThread].starts > 0

\* C11: over every sequence of calls, once IsUsingVt() is true it stays true,
\* and once the input thread VtIo holds has been started VtIo never again
\* holds an input thread that is not started.
C11_Monotonic ==
    [][/\ (IsUsingVt => IsUsingVt')
       /\ (InputThreadStarted => InputThreadStarted')]_vars

\* The steps of Initialize, in the order of the source.
InitializeSteps ==
    <<"ParseIoMode", "CreateFileW(InPipeName)", "CreateFileW(OutPipeName)",
      "make_unique<VtInputThread>", "make_unique<RenderEngine>">>

\* C12: Initialize runs its steps in the order parse, open input, open output,
\* construct input thread, construct engine, and stops at the first failure:
\* with an unrecognized string it returns after the parse with no open
\* attempted; with an input pipe that does not open it returns after the input
\* open, the output open never attempted and no handle left open by the call;
\* with an output pipe that does not open it returns after the output open and
\* nothing is constructed.
C12_OrderAndShortCircuit ==
    op = "Initialize"
    => /\ Len(log) <= Len(InitializeSteps)
       /\ log = SubSeq(InitializeSteps, 1, Len(log))
       /\ (FAILED(ParseIoMode(args.VtMode).hr)
             => /\ pc = "idle"
                /\ hr = "E_INVALIDARG"
                /\ log = <<"ParseIoMode">>
                /\ openHandles = pre.openHandles
                /\ heap = pre.heap)
       /\ ((/\ SUCCEEDED(ParseIoMode(args.VtMode).hr)
            /\ args.InPipeName \notin ExistingPipes
            /\ Len(log) >= 2)
             => /\ pc = "idle"
                /\ hr = LastError
                /\ log = <<"ParseIoMode", "CreateFileW(InPipeName)">>
                /\ _hOutputFile = INVALID_HANDLE_VALUE
                /\ openHandles = pre.openHandles
                /\ heap = pre.heap)
       /\ ((/\ SUCCEEDED(ParseIoMode(args.VtMode).hr)
            /\ args.InPipeName \in ExistingPipes
            /\ args.OutPipeName \notin ExistingPipes
            /\ Len(log) >= 3)
             => /\ pc = "idle"
                /\ hr = LastError
                /\ Len(log) = 3
                /\ heap = pre.heap
                /\ _pVtInputThread = pre.pVtInputThread
                /\ _pVtRenderEngine = pre.pVtRenderEngine)

C12_Witness ==
    /\ InputOpenFailed
    /\ args.InPipeName = "missingIn" /\ args.OutPipeName = "validOut"
    /\ args.VtMode = ""
    /\ log = <<"ParseIoMode", "CreateFileW(InPipeName)">>
    /\ openHandles = {}

\* The object at address p is a fully constructed object of one of the classes
\* and the handle it owns is open.
Constructed(p, classes) ==
    /\ p \in Live(classes)
    /\ heap[p].hFile \in openHandles

\* C13: at every moment, every engine the renderer has a registration of is a
\* fully constructed engine that owns its open output handle, and an input
\* thread that has been started is a fully constructed input thread that owns
\* its open input handle.
C13_NeverPartiallyConstructed ==
    /\ \A i \in 1..Len(renderEngines) : Constructed(renderEngines[i], EngineClasses)
    /\ \A p \in DOMAIN heap :
         (heap[p].class = "VtInputThread" /\ heap[p].starts > 0)
           => Constructed(p, {"VtInputThread"})

\* The handles the locals of a running Initialize hold.
LocalHandles == {_hInputFile, _hOutputFile} \ {INVALID_HANDLE_VALUE}

\* The handles the live objects hold.
ObjectHandles == {heap[p].hFile : p \in DOMAIN heap}

\* C14: in every reachable state each open handle has exactly one owner, a
\* local of a running Initialize or a live input thread or engine; no handle
\* is held twice; a handle no owner holds is closed and a handle an owner holds
\* is open; the live input threads and engines are at most the one
\* _pVtInputThread and the one _pVtRenderEngine point to.
C14_SingleOwner ==
    /\ openHandles = LocalHandles \cup ObjectHandles
    /\ LocalHandles \cap ObjectHandles = {}
    /\ (_hInputFile = _hOutputFile => _hInputFile = INVALID_HANDLE_VALUE)
    /\ \A p, q \in DOMAIN heap : heap[p].hFile = heap[q].hFile => p = q
    /\ (pc \notin {"OpenOutput", "MakeInputThread", "MakeRenderEngine", "Commit"}
          => LocalHandles = {})
    /\ Live({"VtInputThread"}) \subseteq {_pVtInputThread}
    /\ Live(EngineClasses) \subseteq {_pVtRenderEngine}
    /\ DOMAIN heap \subseteq {_pVtInputThread, _pVtRenderEngine}

C14_Witness ==
    /\ pc = "MakeRenderEngine"
    /\ pre.usingVt
    /\ Cardinality(openHandles) = 3
    /\ _hOutputFile \in openHandles
    /\ pre.pVtInputThread \notin DOMAIN heap
    /\ pre.pVtRenderEngine \in DOMAIN heap

\* C15: in every reachable state in which IsUsingVt() is true, _IoMode is
\* XTERM_256, XTERM or WIN_TELNET, never INVALID.
C15_ConfiguredModeValid ==
    IsUsingVt => _IoMode \in {"XTERM_256", "XTERM", "WIN_TELNET"}

\* C16: a StartIfNeeded call made when an earlier one has registered the
\* engine VtIo retains and started its input thread, and in which the
\* registration does not throw, is not guarded: it returns S_OK, has
\* registered the same engine once more and has called Start once more.
C16_SecondStartRepeats ==
    (/\ Returned("StartIfNeeded")
     /\ pre.usingVt
     /\ pre.pVtInputThread \in DOMAIN pre.heap
     /\ pre.heap[pre.pVtInputThread].starts >= 1
     /\ \E i \in 1..Len(pre.renderEngines) : pre.renderEngines[i] = pre.pVtRenderEngine
     /\ ~Threw)
    => /\ hr = "S_OK"
       /\ log = <<"AddRenderEngine", "Start">>
       /\ renderEngines = Append(pre.renderEngines, pre.pVtRenderEngine)
       /\ _pVtInputThread = pre.pVtInputThread
       /\ heap[_pVtInputThread].starts = pre.heap[pre.pVtInputThread].starts + 1

C16_Witness ==
    /\ Returned("StartIfNeeded") /\ hr = "S_OK"
    /\ renderEngines = <<_pVtRenderEngine, _pVtRenderEngine>>
    /\ heap[_pVtInputThread].starts = 2

\* C17: in every reachable state every engine registered with the renderer is
\* the live engine VtIo owns.
C17_RegisteredEngineOwned ==
    \A i \in 1..Len(renderEngines) :
       /\ renderEngines[i] = _pVtRenderEngine
       /\ renderEngines[i] \in DOMAIN heap

\* C18: in every reachable state in which IsUsingVt() is true, _pVtRenderEngine
\* and _pVtInputThread point to live objects, no null engine is registered
\* with the renderer, and Start is never called through a null pointer.
C18_ConfiguredPointersNonNull ==
    /\ (IsUsingVt
          => /\ _pVtRenderEngine # NULL
             /\ _pVtRenderEngine \in Live(EngineClasses)
             /\ _pVtInputThread # NULL
             /\ _pVtInputThread \in Live({"VtInputThread"}))
    /\ \A i \in 1..Len(renderEngines) : renderEngines[i] # NULL
    /\ pc # "crashed"

C18_Witness ==
    /\ Returned("StartIfNeeded") /\ hr = "S_OK"
    /\ pre.prevInitHr \notin {"none", "S_OK"}
    /\ renderEngines = <<_pVtRenderEngine>>
    /\ heap[_pVtInputThread].starts = 1

\* C19: an Initialize call that returns a failure leaves _IoMode,
\* _pVtRenderEngine, _pVtInputThread and _usingVt as they were before the call.
C19_FailureLeavesFields ==
    (Returned("Initialize") /\ FAILED(hr)) => FieldsUnchanged

====
